---- MODULE Spec2Model ----
(***************************************************************************)
(* Model of the ear-image analysis pipeline of api-server-yolov7seg:       *)
(* crop_module.crop_image_by_circle, detect_module.YOLOv7Detector.detect / *)
(* transform_coordinates and api_server.analyze_image.                     *)
(*                                                                         *)
(* An image is represented by its shape and by what OpenCV finds in it     *)
(* (the minimal enclosing circle of its largest contour, in tenths of a    *)
(* pixel so that int() truncation is visible).  A binary mask is           *)
(* represented sparsely: its shape and the set of <<y, x>> pixels that     *)
(* are 1.  Confidences and thresholds are in thousandths.                  *)
(***************************************************************************)
EXTENDS Integers, Sequences, FiniteSets, TLC

VARIABLES detector, pc, req, original_img, cropped_img, crop_info,
          pred, detections, response,
          m_in, m_info, m_to, m_once, m_twice, m_pc,
          other, health, written,
          dr_pc, dr_img, dr_dets, dr_k, result_img, dr_mask,
          contour, seg_lens, dist, idx, pts, step, node_step_px

vars == <<detector, pc, req, original_img, cropped_img, crop_info,
          pred, detections, response,
          m_in, m_info, m_to, m_once, m_twice, m_pc,
          other, health, written,
          dr_pc, dr_img, dr_dets, dr_k, result_img, dr_mask,
          contour, seg_lens, dist, idx, pts, step, node_step_px>>

pipeVars == <<detector, pc, req, original_img, cropped_img, crop_info,
              pred, detections, response>>

mapVars == <<m_in, m_info, m_to, m_once, m_twice, m_pc>>

\* draw_utils: the locals of draw_segmentation_annotations and of
\* _draw_nodes_and_links
drawVars == <<dr_pc, dr_img, dr_dets, dr_k, result_img, dr_mask,
              contour, seg_lens, dist, idx, pts, step, node_step_px>>

(***************************************************************************)
(* Program constants                                                       *)
(***************************************************************************)
TARGET_SIZE == 1080

HALF_TARGET_SIZE == TARGET_SIZE \div 2

MIN_RADIUS_FILTER == 200

\* vis_conf_thres = 0.001, in thousandths
vis_conf_thres == 1

\* img_size of the detector (inference resolution)
img_size == 640

CLASS_ORDER ==
  << "eardrum_perforation", "atresia", "atrophic_scar", "blood_clot", "cerumen",
     "foreign_body", "middle_ear_effusion", "middle_ear_tumor", "otitis_externa",
     "otomycosis", "retraction", "tympanosclerosis", "ventilation_tube",
     "otitis_media", "tympanoplasty", "EAC_tumor", "myringitis", "normal" >>

(***************************************************************************)
(* Bounds                                                                  *)
(***************************************************************************)
\* largest number of raw candidates in one network output
MaxCands == 3

(***************************************************************************)
(* Python values                                                           *)
(***************************************************************************)
\* None where a tuple is expected (crop_coords, cropped_shape)
NoneT == << >>

\* absent / None mask of a detection
NoMask == [h |-> -1, w |-> -1, ones |-> {}]

\* None where an image is expected
NoImg == [h |-> -1, w |-> -1, x0 |-> -1, y0 |-> -1]

\* keys of the crop_info dict built by crop_image_by_circle
CropInfoKeys == {"success", "center", "radius", "crop_coords",
                 "original_shape", "cropped_shape"}

\* a crop_info dict: `keys' are the keys present, the other fields their
\* values (a field whose key is absent is never read)
NoInfo == [keys |-> {}, success |-> FALSE, center |-> <<0, 0>>, radius |-> -1,
           crop_coords |-> NoneT, original_shape |-> NoneT,
           cropped_shape |-> NoneT]

NoReq == [has_image |-> FALSE, conf_thres |-> 0, iou_thres |-> 0,
          include_crop_coords |-> FALSE, coordinate_type |-> "none"]

Max(a, b) == IF a >= b THEN a ELSE b

Min(a, b) == IF a <= b THEN a ELSE b

\* int(v) of a non-negative or negative float given in tenths: truncation
IntOfTenths(v) == IF v >= 0 THEN v \div 10 ELSE -((-v) \div 10)

(***************************************************************************)
(* crop_module                                                             *)
(***************************************************************************)
\* an image buffer: shape, whether findContours returns any contour, and
\* the minimal enclosing circle (tenths of a pixel) of the largest contour
Image(h, w, contours, x10, y10, r10) ==
  [h |-> h, w |-> w, contours |-> contours, x10 |-> x10, y10 |-> y10, r10 |-> r10]

detect_circle_by_contours_otsu(img) ==
  IF ~img.contours
  THEN [success |-> FALSE, center |-> <<0, 0>>, radius |-> 0]
  ELSE [success |-> TRUE,
        center |-> <<IntOfTenths(img.x10), IntOfTenths(img.y10)>>,
        radius |-> IntOfTenths(img.r10)]

\* lower clamp of the left crop edge (line 102)
CropStartXNoClamp(start_x) == start_x

CropStartX(start_x) == Max(0, start_x)

CropEndXNoClamp(original_w, end_x) == end_x

\* upper clamp of the right crop edge (line 103)
CropEndX(original_w, end_x) == Min(original_w, end_x)

\* the radius filter of line 87
RejectCircleStrict(c) == ~c.success \/ c.radius <= MIN_RADIUS_FILTER

RejectCircle(c) == ~c.success \/ c.radius < MIN_RADIUS_FILTER

\* returns [img |-> cropped_img, info |-> crop_info]; the cropped image is a
\* view (numpy slice) of the original: offset and shape
crop_image_by_circle(img) ==
  LET original_h == img.h
      original_w == img.w
      c  == detect_circle_by_contours_otsu(img)
      cx == c.center[1]
      cy == c.center[2]
      r  == c.radius
  IN IF RejectCircle(c)
     THEN [img  |-> NoImg,
           info |-> [keys |-> CropInfoKeys,
                     success |-> FALSE,
                     center |-> IF c.success THEN <<cx, cy>> ELSE <<0, 0>>,
                     radius |-> r,
                     crop_coords |-> NoneT,
                     original_shape |-> <<original_h, original_w>>,
                     cropped_shape |-> NoneT]]
     ELSE LET start_x == CropStartX(cx - HALF_TARGET_SIZE)
              end_x   == CropEndX(original_w, cx + HALF_TARGET_SIZE)
              \* numpy slice img[0:h, start_x:end_x]
              cropped_h == original_h
              cropped_w == Max(0, Min(original_w, end_x) - Min(original_w, start_x))
          IN [img  |-> [h |-> cropped_h, w |-> cropped_w, x0 |-> start_x, y0 |-> 0],
              info |-> [keys |-> CropInfoKeys,
                        success |-> TRUE,
                        center |-> <<cx, cy>>,
                        radius |-> r,
                        crop_coords |-> <<start_x, 0, end_x, original_h>>,
                        original_shape |-> <<original_h, original_w>>,
                        cropped_shape |-> <<cropped_h, cropped_w>>]]

(***************************************************************************)
(* Arithmetic helpers                                                      *)
(***************************************************************************)
\* ceil(a / b), b > 0
CeilDiv(a, b) == -((-a) \div b)

\* round(a / b) as torch/numpy round: half to even, b > 0
RoundDiv(a, b) ==
  LET q == a \div b
      r == a % b
  IN IF 2 * r < b THEN q
     ELSE IF 2 * r > b THEN q + 1
     ELSE IF q % 2 = 0 THEN q ELSE q + 1

Clamp(v, lo, hi) == Max(lo, Min(v, hi))

BoxArea(b) == Max(0, b[3] - b[1]) * Max(0, b[4] - b[2])

BoxInter(a, b) ==
  Max(0, Min(a[3], b[3]) - Max(a[1], b[1])) * Max(0, Min(a[4], b[4]) - Max(a[2], b[2]))

\* IoU(a, b) >= t / 1000
IoUAtLeast(a, b, t) ==
  LET i == BoxInter(a, b)
      u == BoxArea(a) + BoxArea(b) - i
  IN u > 0 /\ 1000 * i >= t * u

(***************************************************************************)
(* External collaborators of detect (yolov7-seg utils), from the design    *)
(***************************************************************************)
\* letterbox of a (h, w) image into the square inference frame: uniform
\* scale img_size / max(h, w), centred padding (floor on the leading side)
letterbox(h, w) ==
  LET m     == Max(h, w)
      new_h == RoundDiv(h * img_size, m)
      new_w == RoundDiv(w * img_size, m)
  IN [h |-> img_size, w |-> img_size, m |-> m, new_h |-> new_h, new_w |-> new_w,
      pad_x |-> (img_size - new_w) \div 2, pad_y |-> (img_size - new_h) \div 2]

\* Inference -> Cropped box transform: (x - pad) / s, clamped to the
\* cropped extents; the result is a tuple of numerators over img_size
scale_coords(lb, box, im0_h, im0_w) ==
  << Clamp((box[1] - lb.pad_x) * lb.m, 0, im0_w * img_size),
     Clamp((box[2] - lb.pad_y) * lb.m, 0, im0_h * img_size),
     Clamp((box[3] - lb.pad_x) * lb.m, 0, im0_w * img_size),
     Clamp((box[4] - lb.pad_y) * lb.m, 0, im0_h * img_size) >>

\* candidates ordered by descending confidence (ties: input order)
RECURSIVE SortByConf(_)
SortByConf(s) ==
  IF s = << >> THEN << >>
  ELSE LET best == CHOOSE i \in 1..Len(s) :
                     \A j \in 1..Len(s) :
                        s[j].conf < s[i].conf \/ (s[j].conf = s[i].conf /\ i <= j)
           rest == [k \in 1..(Len(s) - 1) |-> IF k < best THEN s[k] ELSE s[k + 1]]
       IN <<s[best]>> \o SortByConf(rest)

RECURSIVE GreedyKeep(_, _, _, _)
GreedyKeep(sorted, kept, iou_thres, agnostic) ==
  IF sorted = << >> THEN kept
  ELSE LET c == Head(sorted)
           hit == \E k \in 1..Len(kept) :
                     /\ agnostic \/ kept[k].cls = c.cls
                     /\ IoUAtLeast(kept[k].box, c.box, iou_thres)
       IN GreedyKeep(Tail(sorted), IF hit THEN kept ELSE Append(kept, c),
                     iou_thres, agnostic)

\* non-max suppression: a kept detection suppresses any other candidate with
\* IoU >= iou_thres and lower score; output in descending confidence
non_max_suppression(cands, conf_thres, iou_thres, agnostic) ==
  GreedyKeep(SortByConf(SelectSeq(cands, LAMBDA c : c.conf >= conf_thres)),
             << >>, iou_thres, agnostic)

\* decode of one candidate's mask at inference resolution: the prototype
\* combination, cropped to the candidate's box (x1 <= x < x2, y1 <= y < y2)
process_mask(proto, box, shape_h, shape_w) ==
  [h |-> shape_h, w |-> shape_w,
   ones |-> {p \in proto : /\ box[1] <= p[2] /\ p[2] < box[3]
                           /\ box[2] <= p[1] /\ p[1] < box[4]}]

\* pixels of a dh x dw nearest-neighbour resize of a sh x sw source that
\* read source pixel <<sy, sx>>: dst(y, x) = src(y * sh \div dh, x * sw \div dw)
NearestPreimage(sy, sx, sh, sw, dh, dw) ==
  IF sy < 0 \/ sy >= sh \/ sx < 0 \/ sx >= sw THEN {}
  ELSE (CeilDiv(sy * dh, sh) .. (CeilDiv((sy + 1) * dh, sh) - 1))
       \X (CeilDiv(sx * dw, sw) .. (CeilDiv((sx + 1) * dw, sw) - 1))

\* nearest-neighbour resize of a whole mask to dh x dw
NearestResize(mask, dh, dw) ==
  [h |-> dh, w |-> dw,
   ones |-> UNION {NearestPreimage(p[1], p[2], mask.h, mask.w, dh, dw) : p \in mask.ones}]

\* Inference -> Cropped mask transform: nearest-neighbour resample of the
\* unpadded region to the cropped extents
scale_masks(lb, mask, im0_h, im0_w) ==
  [h |-> im0_h, w |-> im0_w,
   ones |-> UNION {NearestPreimage(p[1] - lb.pad_y, p[2] - lb.pad_x,
                                   lb.new_h, lb.new_w, im0_h, im0_w) : p \in mask.ones}]

(***************************************************************************)
(* detect_module.YOLOv7Detector.detect                                     *)
(***************************************************************************)
\* a raw candidate of the network output: box in Inference space (xyxy),
\* confidence (thousandths), class index, and the pixels (Inference space)
\* where its prototype combination exceeds 0.5
Cand(id, box, conf, cls, proto) ==
  [id |-> id, box |-> box, conf |-> conf, cls |-> cls, proto |-> proto]

\* line 146, class-aware variant
DetNMSPerClass(cands, iou_thres) ==
  non_max_suppression(cands, vis_conf_thres, iou_thres, FALSE)

\* line 146: NMS at the fixed low threshold, class-agnostic
DetNMS(cands, iou_thres) ==
  non_max_suppression(cands, vis_conf_thres, iou_thres, TRUE)

\* line 155: .round() of the rescaled box
RoundBox(b) ==
  << RoundDiv(b[1], img_size), RoundDiv(b[2], img_size),
     RoundDiv(b[3], img_size), RoundDiv(b[4], img_size) >>

ConfSkipAtThreshold(conf, conf_thres) == conf <= conf_thres

\* line 166: the candidate is skipped
ConfSkip(conf, conf_thres) == conf < conf_thres

ClassNameWrapped(cls_id) == CLASS_ORDER[(cls_id % Len(CLASS_ORDER)) + 1]

\* lines 170-173
ClassName(cls_id) ==
  IF cls_id < Len(CLASS_ORDER)
  THEN CLASS_ORDER[cls_id + 1]
  ELSE "class_" \o ToString(cls_id)

\* lines 186-201: decode with the inference-scale box, rescale to the
\* shape of im0s
DecodeMask(dm, lb, im0_h, im0_w) ==
  scale_masks(lb, process_mask(dm.proto, dm.box, lb.h, lb.w), im0_h, im0_w)

MaskErrorDropsCandidate(detection) == << >>

\* lines 202-205: the except branch only prints; the detection is appended
MaskError(detection) == <<detection>>

\* lines 161-205 for row i: the detections this row contributes
DetectRow(d, dm, lb, im0_h, im0_w, conf_thres, nm, fail) ==
  IF ConfSkip(d.conf, conf_thres) THEN << >>
  ELSE LET detection == [bbox |-> d.box, confidence |-> d.conf,
                         class_id |-> d.cls, class_name |-> ClassName(d.cls),
                         mask |-> NoMask]
       IN IF nm > 0
          THEN IF dm.id \in fail
               THEN MaskError(detection)
               ELSE <<[detection EXCEPT !.mask = DecodeMask(dm, lb, im0_h, im0_w)]>>
          ELSE <<detection>>

PrependRow(acc, row) == row \o acc

\* line 205: detections.append(detection)
AppendRow(acc, row) == acc \o row

RECURSIVE DetectLoop(_, _, _, _, _, _, _, _, _, _)
DetectLoop(det, det_for_mask, i, acc, lb, im0_h, im0_w, conf_thres, nm, fail) ==
  IF i > Len(det) THEN acc
  ELSE DetectLoop(det, det_for_mask, i + 1,
                  AppendRow(acc, DetectRow(det[i], det_for_mask[i], lb, im0_h, im0_w,
                                           conf_thres, nm, fail)),
                  lb, im0_h, im0_w, conf_thres, nm, fail)

\* det_for_mask an alias of det instead of a clone: the rescale of line 155
\* writes through it
detectNoClone(img, conf_thres, iou_thres, p) ==
  LET lb  == letterbox(img.h, img.w)
      det0 == DetNMS(p.cands, iou_thres)
      det == [i \in 1..Len(det0) |->
                [det0[i] EXCEPT !.box = RoundBox(scale_coords(lb, det0[i].box, img.h, img.w))]]
      det_for_mask == det
  IN DetectLoop(det, det_for_mask, 1, << >>, lb, img.h, img.w, conf_thres, p.nm, p.fail)

\* img: the image handed to detect; p: the network's output for it
\* (candidates, number of mask coefficients, candidates whose decode raises)
detect(img, conf_thres, iou_thres, p) ==
  LET lb  == letterbox(img.h, img.w)
      det0 == DetNMS(p.cands, iou_thres)
      det_for_mask == det0
      det == [i \in 1..Len(det0) |->
                [det0[i] EXCEPT !.box = RoundBox(scale_coords(lb, det0[i].box, img.h, img.w))]]
  IN DetectLoop(det, det_for_mask, 1, << >>, lb, img.h, img.w, conf_thres, p.nm, p.fail)

(***************************************************************************)
(* detect_module.YOLOv7Detector.transform_coordinates                      *)
(***************************************************************************)
\* value of a mask assignment that raised (numpy shape mismatch)
RaisedMask == [h |-> -2, w |-> -2, ones |-> {}]

\* the mask written at the origin of the grid
PlaceMaskAtOrigin(mask, crop_x1, crop_y1, orig_h, orig_w, crop_h, crop_w) ==
  LET m == IF mask.h = crop_h /\ mask.w = crop_w
           THEN mask
           ELSE NearestResize(mask, crop_h, crop_w)
  IN [h |-> orig_h, w |-> orig_w, ones |-> m.ones]

\* the mask written without the resize of a mismatched size
PlaceMaskAsIs(mask, crop_x1, crop_y1, orig_h, orig_w, crop_h, crop_w) ==
  [h |-> orig_h, w |-> orig_w,
   ones |-> {q \in {<<r[1] + crop_y1, r[2] + crop_x1>> : r \in mask.ones} :
               q[1] < orig_h /\ q[2] < orig_w}]

\* lines 261-274: zero grid of the original extents, the mask written into
\* [crop_y1 : crop_y1 + crop_h, crop_x1 : crop_x1 + crop_w]
PlaceMask(mask, crop_x1, crop_y1, orig_h, orig_w, crop_h, crop_w) ==
  LET m == IF mask.h = crop_h /\ mask.w = crop_w
           THEN mask
           ELSE NearestResize(mask, crop_h, crop_w)
      rows == Max(0, Min(orig_h, crop_y1 + crop_h) - Min(orig_h, crop_y1))
      cols == Max(0, Min(orig_w, crop_x1 + crop_w) - Min(orig_w, crop_x1))
  IN IF rows = crop_h /\ cols = crop_w
     THEN [h |-> orig_h, w |-> orig_w,
           ones |-> {<<q[1] + crop_y1, q[2] + crop_x1>> : q \in m.ones}]
     ELSE RaisedMask

TransformMaskKept(mask, ci) == mask

\* lines 246-274
TransformMask(mask, ci) ==
  IF mask = NoMask THEN mask
  ELSE IF mask.h * mask.w > 0
          /\ "original_shape" \in ci.keys /\ ci.original_shape # NoneT
          /\ "cropped_shape" \in ci.keys /\ ci.cropped_shape # NoneT
       THEN PlaceMask(mask, ci.crop_coords[1], ci.crop_coords[2],
                      ci.original_shape[1], ci.original_shape[2],
                      ci.cropped_shape[1], ci.cropped_shape[2])
       ELSE mask

\* the offsets of the two axes exchanged
TransformDetSwappedOffsets(det, ci, to_original) ==
  IF to_original
  THEN [det EXCEPT !.bbox = << det.bbox[1] + ci.crop_coords[2],
                               det.bbox[2] + ci.crop_coords[1],
                               det.bbox[3] + ci.crop_coords[2],
                               det.bbox[4] + ci.crop_coords[1] >>,
                   !.mask = TransformMask(det.mask, ci)]
  ELSE det

\* only the first corner translated
TransformDetFirstCornerOnly(det, ci, to_original) ==
  IF to_original
  THEN [det EXCEPT !.bbox = << det.bbox[1] + ci.crop_coords[1],
                               det.bbox[2] + ci.crop_coords[2],
                               det.bbox[3],
                               det.bbox[4] >>,
                   !.mask = TransformMask(det.mask, ci)]
  ELSE det

\* lines 232-277 for one detection
TransformDet(det, ci, to_original) ==
  IF to_original
  THEN [det EXCEPT !.bbox = << det.bbox[1] + ci.crop_coords[1],
                               det.bbox[2] + ci.crop_coords[2],
                               det.bbox[3] + ci.crop_coords[1],
                               det.bbox[4] + ci.crop_coords[2] >>,
                   !.mask = TransformMask(det.mask, ci)]
  ELSE det

\* new_det bound to det itself: the key assignments write into the input
DetSameDict(det, new_det) == new_det

\* line 233: new_det = det.copy(); lines 238 and 274 rebind keys of new_det
\* to new lists, so the input dict det keeps its bbox and mask
DetAfterCopy(det, new_det) == det

\* the detections argument as the caller sees it after the call
ArgumentAfterTransform(dets, ci, to_original) ==
  IF ~("success" \in ci.keys /\ ci.success)
  THEN dets
  ELSE [i \in 1..Len(dets) |->
          DetAfterCopy(dets[i], TransformDet(dets[i], ci, to_original))]

\* crop_coords unpacked before the success test
transform_coordinatesUnpackFirst(dets, ci, to_original) ==
  IF ~("crop_coords" \in ci.keys) \/ ci.crop_coords = NoneT
  THEN [raised |-> TRUE, value |-> << >>]
  ELSE IF ~("success" \in ci.keys /\ ci.success)
  THEN [raised |-> FALSE, value |-> dets]
  ELSE LET transformed == [i \in 1..Len(dets) |-> TransformDet(dets[i], ci, to_original)]
       IN IF \E i \in 1..Len(dets) : transformed[i].mask = RaisedMask
          THEN [raised |-> TRUE, value |-> << >>]
          ELSE [raised |-> FALSE, value |-> transformed]

\* [raised |-> an exception left the call, value |-> the returned list]
transform_coordinates(dets, ci, to_original) ==
  IF ~("success" \in ci.keys /\ ci.success)
  THEN [raised |-> FALSE, value |-> dets]
  ELSE IF ~("crop_coords" \in ci.keys) \/ ci.crop_coords = NoneT
  THEN [raised |-> TRUE, value |-> << >>]
  ELSE LET transformed == [i \in 1..Len(dets) |-> TransformDet(dets[i], ci, to_original)]
       IN IF \E i \in 1..Len(dets) : transformed[i].mask = RaisedMask
          THEN [raised |-> TRUE, value |-> << >>]
          ELSE [raised |-> FALSE, value |-> transformed]

(***************************************************************************)
(* Inputs                                                                  *)
(***************************************************************************)
\* decodable images: shape, contour outcome, enclosing circle (tenths)
\* integer square root
ISqrt(n) == CHOOSE r \in 0..20000 : r * r <= n /\ n < (r + 1) * (r + 1)

\* an h x w image whose every pixel has grey level g, as lines 32-45 of
\* detect_circle_by_contours_otsu see it: Otsu's threshold of a one-level
\* histogram is 0, so THRESH_BINARY gives an all-0 image for g = 0 (no
\* contour) and an all-255 image for g > 0, whose single external contour
\* is the image frame (0,0)-(w-1,h-1); its enclosing circle has the
\* frame's centre and half its diagonal
UniformImage(h, w, g) ==
  IF g = 0
  THEN Image(h, w, FALSE, 0, 0, 0)
  ELSE Image(h, w, TRUE, 5 * (w - 1), 5 * (h - 1),
             ISqrt(25 * ((w - 1) * (w - 1) + (h - 1) * (h - 1))))

\* all-black and all-white images
UniformImages ==
  {UniformImage(1080, 1600, 0), UniformImage(1080, 1600, 255),
   UniformImage(100, 100, 0), UniformImage(100, 100, 255)}

Images ==
  UniformImages \cup
  {Image(1080, 1600, TRUE, 6000, 5400, r10) : r10 \in {500, 1999, 2000, 2009, 3000}}
  \cup {Image(1080, 1600, TRUE, x10, 5400, 3000) : x10 \in {0, 3005, 12509, 15990}}
  \cup {Image(1080, 1600, FALSE, 0, 0, 0),
        Image(1080, 1000, TRUE, 5000, 5400, 4000),
        Image(480, 640, TRUE, 3200, 2400, 500),
        Image(480, 640, TRUE, 3200, 2400, 2400)}

\* the undecodable buffer (cv2.imdecode returns None)
BadImage == Image(-1, -1, FALSE, 0, 0, 0)

\* candidate pool of the network output (Inference space)
CandPool ==
  << Cand(1, <<100, 200, 300, 400>>, 900, 4,  {<<250, 150>>, <<450, 350>>}),
     Cand(2, <<150, 200, 350, 400>>, 700, 0,  {<<300, 200>>}),
     Cand(3, <<200, 200, 400, 400>>, 600, 4,  {<<320, 390>>, <<210, 205>>}),
     Cand(4, <<400, 250, 500, 350>>, 250, 18, {<<300, 450>>}),
     Cand(5, <<410, 250, 510, 350>>, 700, 17, {<<260, 420>>, <<10, 10>>}),
     Cand(6, <<300, 20, 380, 90>>,   500, 12, {<<60, 310>>}) >>

\* the sub-sequence of CandPool with the given indices
RECURSIVE SubPool(_, _)
SubPool(ids, from) ==
  IF from > Len(CandPool) THEN << >>
  ELSE (IF from \in ids THEN <<CandPool[from]>> ELSE << >>) \o SubPool(ids, from + 1)

\* network outputs: at most MaxCands candidates; a segmentation model
\* (nm = 32) where at most one candidate's mask decode raises, or a model
\* without mask coefficients (nm = 0)
NetOutputs ==
  UNION {
    {[cands |-> SubPool(ids, 1), nm |-> 32, fail |-> f] :
        f \in {{}} \cup {{i} : i \in ids}}
    \cup {[cands |-> SubPool(ids, 1), nm |-> 0, fail |-> {}]}
    : ids \in {x \in SUBSET (1..Len(CandPool)) : Cardinality(x) <= MaxCands} }

NoPred == [cands |-> << >>, nm |-> -1, fail |-> {}]

\* the forward pass raises (inference error) instead of returning
ModelRaises == [cands |-> << >>, nm |-> -2, fail |-> {}]

Requests ==
  { [has_image |-> TRUE, conf_thres |-> c, iou_thres |-> u,
     include_crop_coords |-> inc, coordinate_type |-> t] :
       c \in {250, 700}, u \in {450, 600}, inc \in BOOLEAN,
       t \in {"original", "cropped"} }
  \cup {[NoReq EXCEPT !.conf_thres = 250, !.iou_thres = 450]}
  \cup {[has_image |-> TRUE, conf_thres |-> 250, iou_thres |-> 450,
         include_crop_coords |-> TRUE, coordinate_type |-> "Original"]}

NoResponse == [status |-> 0, error |-> "", detections |-> << >>,
               coordinate_type |-> "none", has_crop_info |-> FALSE,
               crop_info |-> NoInfo]

ErrorResponse(status, msg) == [NoResponse EXCEPT !.status = status, !.error = msg]

\* the local variables of a second analyze_image call that runs
\* concurrently with the first (another worker thread), before it starts
NoLocals == [pc |-> "idle", req |-> NoReq, original_img |-> BadImage,
             cropped_img |-> NoImg, crop_info |-> NoInfo, pred |-> NoPred,
             detections |-> << >>, response |-> NoResponse]

\* no health_check response yet
NoHealth == [called |-> FALSE, detector_loaded |-> FALSE]

\* draw_segmentation_annotations not called
DrawOff ==
  /\ dr_pc = "off"
  /\ dr_img = [h |-> 0, w |-> 0, marked |-> FALSE]
  /\ dr_dets = << >>
  /\ dr_k = 0
  /\ result_img = [copy |-> TRUE, ops |-> << >>]
  /\ dr_mask = NoMask
  /\ contour = << >>
  /\ seg_lens = << >>
  /\ dist = 0
  /\ idx = 0
  /\ pts = << >>
  /\ step = 0
  /\ node_step_px = 12

(***************************************************************************)
(* api_server                                                              *)
(***************************************************************************)
\* init_detector: the process-wide detector is set at startup
InitDetector ==
  /\ detector = "None"
  /\ pc = "idle"
  /\ detector' = "loaded"
  /\ UNCHANGED <<pc, req, original_img, cropped_img, crop_info, pred,
                 detections, response>>
  /\ UNCHANGED <<mapVars, other, health, written, drawVars>>

\* health_check, lines 106-112
HealthCheck ==
  /\ health' = [called |-> TRUE, detector_loaded |-> detector # "None"]
  /\ UNCHANGED <<pipeVars, mapVars, other, written, drawVars>>

\* the request is analysed whether or not the detector is set
ReceiveUnguarded(r) ==
  /\ pc = "idle"
  /\ req' = r
  /\ IF ~r.has_image
     THEN /\ response' = ErrorResponse(400, "missing image")
          /\ pc' = "done"
     ELSE /\ response' = NoResponse
          /\ pc' = "decode"
  /\ UNCHANGED <<detector, original_img, cropped_img, crop_info, pred, detections>>
  /\ UNCHANGED <<mapVars, other, health, written, drawVars>>

\* analyze_image, lines 155-172: the guards and the request parameters
Receive(r) ==
  /\ pc = "idle"
  /\ req' = r
  /\ IF detector = "None"
     THEN /\ response' = ErrorResponse(500, "detector not initialized")
          /\ pc' = "done"
     ELSE IF ~r.has_image
     THEN /\ response' = ErrorResponse(400, "missing image")
          /\ pc' = "done"
     ELSE /\ response' = NoResponse
          /\ pc' = "decode"
  /\ UNCHANGED <<detector, original_img, cropped_img, crop_info, pred, detections>>
  /\ UNCHANGED <<mapVars, other, health, written, drawVars>>

\* lines 175-176: decode_image raises ValueError on an undecodable buffer
Decode(img) ==
  /\ pc = "decode"
  /\ IF img = BadImage
     THEN /\ response' = ErrorResponse(500, "ValueError")
          /\ pc' = "done"
          /\ UNCHANGED original_img
     ELSE /\ original_img' = img
          /\ pc' = "crop"
          /\ UNCHANGED response
  /\ UNCHANGED <<detector, req, cropped_img, crop_info, pred, detections>>
  /\ UNCHANGED <<mapVars, other, health, written, drawVars>>

\* the whole original image as the image handed on
FullImage(img) == [h |-> img.h, w |-> img.w, x0 |-> 0, y0 |-> 0]

\* a default centre window instead of the full image
FallbackImageCentre(img) ==
  [h |-> img.h, w |-> Min(img.w, TARGET_SIZE), x0 |-> 0, y0 |-> 0]

\* line 184: cropped_img = original_img
FallbackImage(img) == FullImage(img)

\* detect_circle_by_contours_otsu, lines 29-44: gray, binary and
\* binary_display are new arrays; the largest contour is drawn in place on
\* binary_display when there is one
CircleWrites(img) == IF img.contours THEN {"binary_display"} ELSE {}

\* line 179: cropped_img, crop_info = crop_image_by_circle(original_img)
Crop ==
  /\ pc = "crop"
  /\ LET c == crop_image_by_circle(original_img)
     IN /\ cropped_img' = c.img
        /\ crop_info' = c.info
  /\ written' = written \cup CircleWrites(original_img)
  /\ pc' = "fallback"
  /\ UNCHANGED <<detector, req, original_img, pred, detections, response>>
  /\ UNCHANGED <<mapVars, other, health, drawVars>>

\* lines 182-190: on ROI failure the original image is used and crop_info
\* is rebuilt
Fallback ==
  /\ pc = "fallback"
  /\ IF ~("success" \in crop_info.keys /\ crop_info.success) \/ cropped_img = NoImg
     THEN /\ cropped_img' = FallbackImage(original_img)
          /\ crop_info' = [NoInfo EXCEPT
                             !.keys = {"success", "crop_coords",
                                       "original_shape", "cropped_shape"},
                             !.original_shape = <<original_img.h, original_img.w>>,
                             !.cropped_shape = <<original_img.h, original_img.w>>]
     ELSE UNCHANGED <<cropped_img, crop_info>>
  /\ pc' = "detect"
  /\ UNCHANGED <<detector, req, original_img, pred, detections, response>>
  /\ UNCHANGED <<mapVars, other, health, written, drawVars>>

\* the array detect is handed: line 106 of crop_module slices the original
\* image (a view of its memory) and line 184 binds the original image itself
InputBuffer == "original_img"

\* preprocess_image, lines 91-102: the buffers written in place; the image
\* is copied first (line 91), letterbox, ascontiguousarray and float() give
\* new arrays, and only the float tensor is divided in place (line 102)
preprocess_image(buf) == {"im_tensor"}

\* the request carries on after the forward pass raised
DetectKeepsGoing(p) ==
  /\ pc = "detect"
  /\ pred' = p
  /\ detections' = IF p = ModelRaises THEN << >>
                   ELSE detect(cropped_img, req.conf_thres, req.iou_thres, p)
  /\ pc' = "transform"
  /\ UNCHANGED <<detector, req, original_img, cropped_img, crop_info, response>>
  /\ written' = written \cup preprocess_image(InputBuffer)
  /\ UNCHANGED <<mapVars, other, health, drawVars>>

\* lines 193-197; p is the network's output for cropped_img, or the raise
\* of the forward pass, which the handler of lines 226-233 turns into the
\* error response
Detect(p) ==
  /\ pc = "detect"
  /\ pred' = p
  /\ IF p = ModelRaises
     THEN /\ response' = ErrorResponse(500, "RuntimeError")
          /\ pc' = "done"
          /\ UNCHANGED detections
     ELSE /\ detections' = detect(cropped_img, req.conf_thres, req.iou_thres, p)
          /\ pc' = "transform"
          /\ UNCHANGED response
  /\ UNCHANGED <<detector, req, original_img, cropped_img, crop_info>>
  /\ written' = written \cup preprocess_image(InputBuffer)
  /\ UNCHANGED <<mapVars, other, health, drawVars>>

\* lines 200-206
Transform ==
  /\ pc = "transform"
  /\ IF req.coordinate_type = "original" /\ "success" \in crop_info.keys /\ crop_info.success
     THEN LET t == transform_coordinates(detections, crop_info, TRUE)
          IN IF t.raised
             THEN /\ response' = ErrorResponse(500, "exception")
                  /\ pc' = "done"
                  /\ UNCHANGED detections
             ELSE /\ detections' = t.value
                  /\ pc' = "respond"
                  /\ UNCHANGED response
     ELSE /\ pc' = "respond"
          /\ UNCHANGED <<detections, response>>
  /\ UNCHANGED <<detector, req, original_img, cropped_img, crop_info, pred>>
  /\ UNCHANGED <<mapVars, other, health, written, drawVars>>

\* lines 210-224
Respond ==
  /\ pc = "respond"
  /\ response' = [status |-> 200, error |-> "", detections |-> detections,
                  coordinate_type |-> req.coordinate_type,
                  has_crop_info |-> req.include_crop_coords,
                  crop_info |-> IF req.include_crop_coords THEN crop_info ELSE NoInfo]
  /\ pc' = "done"
  /\ UNCHANGED <<detector, req, original_img, cropped_img, crop_info, pred, detections>>
  /\ UNCHANGED <<mapVars, other, health, written, drawVars>>

\* the request ends: its locals are discarded, the detector stays
Finish ==
  /\ pc = "done"
  /\ pc' = "idle"
  /\ req' = NoReq
  /\ original_img' = BadImage
  /\ cropped_img' = NoImg
  /\ crop_info' = NoInfo
  /\ pred' = NoPred
  /\ detections' = << >>
  /\ response' = NoResponse
  /\ UNCHANGED detector
  /\ UNCHANGED <<mapVars, other, health, written, drawVars>>

Init ==
  /\ detector = "None"
  /\ pc = "idle"
  /\ req = NoReq
  /\ original_img = BadImage
  /\ cropped_img = NoImg
  /\ crop_info = NoInfo
  /\ pred = NoPred
  /\ detections = << >>
  /\ response = NoResponse
  /\ m_in = << >>
  /\ m_info = NoInfo
  /\ m_to = TRUE
  /\ m_once = << >>
  /\ m_twice = << >>
  /\ m_pc = "off"
  /\ other = NoLocals
  /\ health = NoHealth
  /\ written = {}
  /\ DrawOff

Next ==
  \/ InitDetector
  \/ \E r \in Requests : Receive(r)
  \/ \E img \in Images \cup {BadImage} : Decode(img)
  \/ Crop
  \/ Fallback
  \/ \E p \in NetOutputs \cup {ModelRaises} : Detect(p)
  \/ Transform
  \/ Respond
  \/ Finish

Spec == Init /\ [][Next]_vars

\* what analyze_image holds after its fallback step for image img
CropOutcome(img) ==
  LET c == crop_image_by_circle(img)
  IN IF c.info.success THEN c
     ELSE [img |-> FallbackImage(img),
           info |-> [NoInfo EXCEPT
                       !.keys = {"success", "crop_coords",
                                 "original_shape", "cropped_shape"},
                       !.original_shape = <<img.h, img.w>>,
                       !.cropped_shape = <<img.h, img.w>>]]

(***************************************************************************)
(* Two analyze_image calls running concurrently: the first uses the        *)
(* actions above, the second the same steps on its own locals `other';     *)
(* the module-level detector is the only variable both read                *)
(***************************************************************************)
OtherReceive(r) ==
  /\ other.pc = "idle"
  /\ other' = IF detector = "None"
              THEN [other EXCEPT !.req = r, !.pc = "done",
                       !.response = ErrorResponse(500, "detector not initialized")]
              ELSE IF ~r.has_image
              THEN [other EXCEPT !.req = r, !.pc = "done",
                       !.response = ErrorResponse(400, "missing image")]
              ELSE [other EXCEPT !.req = r, !.pc = "decode"]
  /\ UNCHANGED <<pipeVars, mapVars, health, written, drawVars>>

OtherDecode(img) ==
  /\ other.pc = "decode"
  /\ other' = IF img = BadImage
              THEN [other EXCEPT !.pc = "done",
                       !.response = ErrorResponse(500, "ValueError")]
              ELSE [other EXCEPT !.original_img = img, !.pc = "crop"]
  /\ UNCHANGED <<pipeVars, mapVars, health, written, drawVars>>

OtherCrop ==
  /\ other.pc = "crop"
  /\ LET c == crop_image_by_circle(other.original_img)
     IN other' = [other EXCEPT !.cropped_img = c.img, !.crop_info = c.info,
                               !.pc = "fallback"]
  /\ written' = written \cup CircleWrites(other.original_img)
  /\ UNCHANGED <<pipeVars, mapVars, health, drawVars>>

OtherFallback ==
  /\ other.pc = "fallback"
  /\ other' = IF ~("success" \in other.crop_info.keys /\ other.crop_info.success)
                 \/ other.cropped_img = NoImg
              THEN [other EXCEPT
                      !.cropped_img = FallbackImage(other.original_img),
                      !.crop_info = [NoInfo EXCEPT
                          !.keys = {"success", "crop_coords",
                                    "original_shape", "cropped_shape"},
                          !.original_shape = <<other.original_img.h, other.original_img.w>>,
                          !.cropped_shape = <<other.original_img.h, other.original_img.w>>],
                      !.pc = "detect"]
              ELSE [other EXCEPT !.pc = "detect"]
  /\ UNCHANGED <<pipeVars, mapVars, health, written, drawVars>>

\* the detection list kept in a module-level variable that both calls use
OtherDetectShared(p) ==
  /\ other.pc = "detect"
  /\ IF p = ModelRaises
     THEN /\ other' = [other EXCEPT !.pred = p, !.pc = "done",
                          !.response = ErrorResponse(500, "RuntimeError")]
          /\ UNCHANGED detections
     ELSE /\ detections' = detect(other.cropped_img, other.req.conf_thres,
                                  other.req.iou_thres, p)
          /\ other' = [other EXCEPT !.pred = p, !.detections = detections',
                          !.pc = "transform"]
  /\ UNCHANGED <<detector, pc, req, original_img, cropped_img, crop_info,
                 pred, response>>
  /\ written' = written \cup preprocess_image(InputBuffer)
  /\ UNCHANGED <<mapVars, health, drawVars>>

OtherDetect(p) ==
  /\ other.pc = "detect"
  /\ other' = IF p = ModelRaises
              THEN [other EXCEPT !.pred = p, !.pc = "done",
                       !.response = ErrorResponse(500, "RuntimeError")]
              ELSE [other EXCEPT !.pred = p, !.pc = "transform",
                       !.detections = detect(other.cropped_img, other.req.conf_thres,
                                             other.req.iou_thres, p)]
  /\ written' = written \cup preprocess_image(InputBuffer)
  /\ UNCHANGED <<pipeVars, mapVars, health, drawVars>>

OtherTransform ==
  /\ other.pc = "transform"
  /\ other' = IF other.req.coordinate_type = "original"
                 /\ "success" \in other.crop_info.keys /\ other.crop_info.success
              THEN LET t == transform_coordinates(other.detections, other.crop_info, TRUE)
                   IN IF t.raised
                      THEN [other EXCEPT !.pc = "done",
                               !.response = ErrorResponse(500, "exception")]
                      ELSE [other EXCEPT !.detections = t.value, !.pc = "respond"]
              ELSE [other EXCEPT !.pc = "respond"]
  /\ UNCHANGED <<pipeVars, mapVars, health, written, drawVars>>

OtherRespond ==
  /\ other.pc = "respond"
  /\ other' = [other EXCEPT !.pc = "done",
                 !.response = [status |-> 200, error |-> "",
                               detections |-> other.detections,
                               coordinate_type |-> other.req.coordinate_type,
                               has_crop_info |-> other.req.include_crop_coords,
                               crop_info |-> IF other.req.include_crop_coords
                                             THEN other.crop_info ELSE NoInfo]]
  /\ UNCHANGED <<pipeVars, mapVars, health, written, drawVars>>

OtherFinish ==
  /\ other.pc = "done"
  /\ other' = NoLocals
  /\ UNCHANGED <<pipeVars, mapVars, health, written, drawVars>>

\* init_detector runs in the main block before app.run, when no request
\* is being served
Startup ==
  /\ other.pc = "idle"
  /\ InitDetector

ConcRequests ==
  { [has_image |-> TRUE, conf_thres |-> 250, iou_thres |-> 450,
     include_crop_coords |-> TRUE, coordinate_type |-> t] :
       t \in {"original", "cropped"} }
  \cup {[NoReq EXCEPT !.conf_thres = 250, !.iou_thres = 450]}

ConcImages ==
  {Image(1080, 1600, TRUE, 6000, 5400, 3000),
   Image(480, 640, TRUE, 3200, 2400, 500),
   BadImage}

ConcOutputs ==
  {[cands |-> SubPool({1, 3}, 1), nm |-> 32, fail |-> {}],
   [cands |-> SubPool({2, 6}, 1), nm |-> 32, fail |-> {2}],
   ModelRaises}

NextConc ==
  \/ Startup
  \/ HealthCheck
  \/ \E r \in ConcRequests : Receive(r)
  \/ \E img \in ConcImages : Decode(img)
  \/ Crop
  \/ Fallback
  \/ \E p \in ConcOutputs : Detect(p)
  \/ Transform
  \/ Respond
  \/ Finish
  \/ \E r \in ConcRequests : OtherReceive(r)
  \/ \E img \in ConcImages : OtherDecode(img)
  \/ OtherCrop
  \/ OtherFallback
  \/ \E p \in ConcOutputs : OtherDetect(p)
  \/ OtherTransform
  \/ OtherRespond
  \/ OtherFinish

SpecConc == Init /\ [][NextConc]_vars

(***************************************************************************)
(* transform_coordinates called directly (to_original = True), once and    *)
(* then again on its own output with the same crop_info                    *)
(***************************************************************************)
MapInputs ==
  { [dets |-> detect(CropOutcome(img).img, 250, 450, p), info |-> CropOutcome(img).info] :
      img \in Images, p \in NetOutputs }
  \cup
  { [dets |-> detect(FullImage(img), 250, 450, p), info |-> crop_image_by_circle(img).info] :
      img \in {i \in Images : ~crop_image_by_circle(i).info.success}, p \in NetOutputs }

InitMap ==
  /\ detector = "loaded"
  /\ pc = "idle"
  /\ req = NoReq
  /\ original_img = BadImage
  /\ cropped_img = NoImg
  /\ crop_info = NoInfo
  /\ pred = NoPred
  /\ detections = << >>
  /\ response = NoResponse
  /\ \E i \in MapInputs : m_in = i.dets /\ m_info = i.info
  /\ m_to \in BOOLEAN
  /\ m_once = << >>
  /\ m_twice = << >>
  /\ m_pc = "start"
  /\ other = NoLocals
  /\ health = NoHealth
  /\ written = {}
  /\ DrawOff

\* transform_coordinates(m_in, m_info, to_original = m_to)
MapOnce ==
  /\ m_pc = "start"
  /\ LET t == transform_coordinates(m_in, m_info, m_to)
     IN IF t.raised
        THEN m_pc' = "raised" /\ UNCHANGED m_once
        ELSE m_pc' = "once" /\ m_once' = t.value
  /\ m_in' = ArgumentAfterTransform(m_in, m_info, m_to)
  /\ UNCHANGED <<m_info, m_to, m_twice>>
  /\ UNCHANGED <<pipeVars, other, health, written, drawVars>>

\* the back-mapping applied again to its own output
MapTwice ==
  /\ m_pc = "once"
  /\ m_to
  /\ LET t == transform_coordinates(m_once, m_info, TRUE)
     IN IF t.raised
        THEN m_pc' = "rejected" /\ UNCHANGED m_twice
        ELSE m_pc' = "twice" /\ m_twice' = t.value
  /\ UNCHANGED <<m_in, m_info, m_to, m_once>>
  /\ UNCHANGED <<pipeVars, other, health, written, drawVars>>

NextMap == MapOnce \/ MapTwice

SpecMap == InitMap /\ [][NextMap]_vars

(***************************************************************************)
(* draw_utils: draw_segmentation_annotations and _draw_nodes_and_links.    *)
(* Points are <<x, y>>.  Segment lengths and the accumulated distance are  *)
(* in 1/LenScale of a pixel.  What OpenCV extracts from the smoothed mask  *)
(* of a detection (its largest external contour) is part of the input.     *)
(* result_img is represented by whether it is a buffer of its own (copy)   *)
(* and by the list of primitives drawn so far; `written' collects the      *)
(* buffers written in place ("img": the image handed to the stage).        *)
(***************************************************************************)
\* draw_conf_thres = 0.1, in thousandths
draw_conf_thres == 100

LenScale == 100

MaxDrawDets == 2

RECURSIVE SqrtSearch(_, _, _)
SqrtSearch(n, lo, hi) ==
  IF lo >= hi THEN lo
  ELSE LET mid == (lo + hi + 1) \div 2
       IN IF mid * mid <= n THEN SqrtSearch(n, mid, hi)
          ELSE SqrtSearch(n, lo, mid - 1)

\* floor of the square root
FloorSqrt(n) == SqrtSearch(n, 0, 46340)

\* lines 54-55 and 78-79: Euclidean length of the segment p-q
SegLen(p, q) ==
  FloorSqrt(LenScale * LenScale *
            ((q[1] - p[1]) * (q[1] - p[1]) + (q[2] - p[2]) * (q[2] - p[2])))

\* line 55: seg_lens of the open polyline c
SegLens(c) == [i \in 1..(Len(c) - 1) |-> SegLen(c[i], c[i + 1])]

RECURSIVE SeqSum(_)
SeqSum(q) == IF q = << >> THEN 0 ELSE q[1] + SeqSum(Tail(q))

\* int(round(num / den)) for den > 0: round half to even
RoundHalfEven(num, den) ==
  LET q == num \div den
      r == num % den
  IN IF 2 * r < den THEN q
     ELSE IF 2 * r > den THEN q + 1
     ELSE IF q % 2 = 0 THEN q ELSE q + 1

\* int(num / den): truncation toward zero
TruncDiv(num, den) ==
  LET n == IF den < 0 THEN -num ELSE num
      e == IF den < 0 THEN -den ELSE den
  IN IF n >= 0 THEN n \div e ELSE -((-n) \div e)

\* the start point of the segment left where it was
KeepStart(old, px, py, seg) == old

\* line 77: c[idx] = p, the float point stored into the int32 array
MoveStart(old, px, py, seg) == <<TruncDiv(px, seg), TruncDiv(py, seg)>>

\* next vertex of the closed polygon c
NextIx(c, i) == IF i = Len(c) THEN 1 ELSE i + 1

Cross(c, i) == c[i][1] * c[NextIx(c, i)][2] - c[NextIx(c, i)][1] * c[i][2]

\* twice the signed area of the closed polygon c (Green's formula)
TwiceArea(c) == SeqSum([i \in 1..Len(c) |-> Cross(c, i)])

\* cv2.contourArea(c) < 10
AreaBelow10(c) ==
  LET a == TwiceArea(c) IN (IF a < 0 THEN -a ELSE a) < 20

MinOf(S) == CHOOSE x \in S : \A y \in S : x <= y

\* lines 312-318: centroid from the contour's moments, or the corner of
\* its bounding rectangle when m00 = 0
Anchor(c) ==
  LET a2 == TwiceArea(c)
      mx == SeqSum([i \in 1..Len(c) |-> Cross(c, i) * (c[i][1] + c[NextIx(c, i)][1])])
      my == SeqSum([i \in 1..Len(c) |-> Cross(c, i) * (c[i][2] + c[NextIx(c, i)][2])])
  IN IF a2 # 0
     THEN <<TruncDiv(mx, 3 * a2), TruncDiv(my, 3 * a2)>>
     ELSE <<MinOf({c[i][1] : i \in 1..Len(c)}), MinOf({c[i][2] : i \in 1..Len(c)})>>

\* lines 263-276: the mask-size reconciliation
ReconcileMask(mask, img_h, img_w) ==
  IF mask.h # img_h \/ mask.w # img_w
  THEN IF mask.h > img_h \/ mask.w > img_w
       THEN [h |-> Min(mask.h, img_h), w |-> Min(mask.w, img_w),
             ones |-> {q \in mask.ones : q[1] < img_h /\ q[2] < img_w}]
       ELSE [h |-> img_h, w |-> img_w, ones |-> mask.ones]
  ELSE mask

\* a primitive drawn on result_img for detection k
DrawOp(op, k, xy, box, nodes) ==
  [op |-> op, det |-> k, xy |-> xy, box |-> box, nodes |-> nodes]

\* the buffer an in-place drawing call on result_img writes
DrawTarget(r) == IF r.copy THEN "result_img" ELSE "img"

\* result_img bound to the input image itself
StartNoCopy == [copy |-> FALSE, ops |-> << >>]

\* line 203: result_img = img.copy()
StartCopy == [copy |-> TRUE, ops |-> << >>]

\* a detection handed to the renderer
DrawDet(bbox, conf, cls, mask, c) ==
  [bbox |-> bbox, confidence |-> conf, class_id |-> cls,
   class_name |-> ClassName(cls), mask |-> mask, contour |-> c]

\* largest external contours as findContours (CHAIN_APPROX_SIMPLE) returns
\* them: closed polygons without a repeated end point
RectContour == << <<10, 10>>, <<10, 50>>, <<60, 50>>, <<60, 10>> >>

DiamondContour == << <<50, 10>>, <<10, 50>>, <<50, 90>>, <<90, 50>> >>

SlantContour == << <<8, 8>>, <<16, 16>>, <<66, 16>>, <<66, 8>> >>

StairContour ==
  << <<10, 10>>, <<13, 10>>, <<13, 14>>, <<20, 14>>, <<20, 30>>, <<10, 30>> >>

TinyContour == << <<5, 5>>, <<5, 8>>, <<8, 8>> >>

WedgeContour == << <<10, 10>>, <<10, 20>>, <<40, 40>> >>

DrawDetPool ==
  { DrawDet(<<10, 20, 50, 60>>, 900, 4, NoMask, << >>),
    DrawDet(<<30, 30, 70, 80>>, 50, 0, NoMask, << >>),
    DrawDet(<<10, 10, 60, 50>>, 50, 4,
            [h |-> 100, w |-> 100, ones |-> {<<20, 20>>}], RectContour),
    DrawDet(<<0, 0, 0, 0>>, 700, 2, [h |-> 0, w |-> 0, ones |-> {}], << >>),
    DrawDet(<<1, 1, 3, 3>>, 700, 2,
            [h |-> 100, w |-> 100, ones |-> {<<2, 2>>}], << >>),
    DrawDet(<<5, 5, 8, 8>>, 700, 2,
            [h |-> 100, w |-> 100, ones |-> {<<6, 6>>}], TinyContour),
    DrawDet(<<10, 10, 60, 50>>, 800, 17,
            [h |-> 100, w |-> 100, ones |-> {<<20, 20>>, <<40, 30>>}], RectContour),
    DrawDet(<<10, 10, 20, 30>>, 800, 17,
            [h |-> 80, w |-> 80, ones |-> {<<20, 15>>}], StairContour),
    DrawDet(<<10, 10, 40, 40>>, 600, 9,
            [h |-> 100, w |-> 100, ones |-> {<<20, 15>>}], WedgeContour),
    DrawDet(<<10, 10, 90, 90>>, 800, 13,
            [h |-> 120, w |-> 120, ones |-> {<<50, 50>>, <<110, 110>>}], DiamondContour),
    DrawDet(<<8, 8, 66, 16>>, 800, 13,
            [h |-> 120, w |-> 80, ones |-> {<<12, 40>>, <<110, 70>>}], SlantContour) }

\* detection lists of at most MaxDrawDets detections
DrawDetLists ==
  UNION { [1..n -> DrawDetPool] : n \in 0..MaxDrawDets }

NodeSteps == {1, 5, 12}

InitDraw ==
  /\ detector = "loaded"
  /\ pc = "idle"
  /\ req = NoReq
  /\ original_img = BadImage
  /\ cropped_img = NoImg
  /\ crop_info = NoInfo
  /\ pred = NoPred
  /\ detections = << >>
  /\ response = NoResponse
  /\ m_in = << >>
  /\ m_info = NoInfo
  /\ m_to = TRUE
  /\ m_once = << >>
  /\ m_twice = << >>
  /\ m_pc = "off"
  /\ other = NoLocals
  /\ health = NoHealth
  /\ written = {}
  /\ dr_pc = "start"
  /\ dr_img = [h |-> 100, w |-> 100, marked |-> FALSE]
  /\ dr_dets \in DrawDetLists
  /\ dr_k = 0
  /\ result_img = StartCopy
  /\ dr_mask = NoMask
  /\ contour = << >>
  /\ seg_lens = << >>
  /\ dist = 0
  /\ idx = 0
  /\ pts = << >>
  /\ step = 0
  /\ node_step_px \in NodeSteps

\* line 203 and the loop set-up
DrawStart ==
  /\ dr_pc = "start"
  /\ result_img' = StartCopy
  /\ dr_k' = 1
  /\ dr_pc' = "loop"
  /\ UNCHANGED <<dr_img, dr_dets, dr_mask, contour, seg_lens, dist, idx, pts,
                 step, node_step_px, written>>
  /\ UNCHANGED <<pipeVars, mapVars, other, health>>

\* lines 234-237 and 259-260, 290-296: the detection is not drawn
DrawSkip ==
  /\ dr_pc = "loop"
  /\ dr_k <= Len(dr_dets)
  /\ LET det == dr_dets[dr_k]
     IN /\ \/ det.confidence < draw_conf_thres
           \/ /\ det.mask # NoMask
              /\ \/ det.mask.h * det.mask.w = 0
                 \/ det.contour = << >>
                 \/ AreaBelow10(det.contour)
        /\ dr_mask' = IF det.confidence >= draw_conf_thres /\ det.mask # NoMask
                         /\ det.mask.h * det.mask.w # 0
                      THEN ReconcileMask(det.mask, dr_img.h, dr_img.w)
                      ELSE dr_mask
  /\ dr_k' = dr_k + 1
  /\ UNCHANGED <<dr_pc, dr_img, dr_dets, result_img, contour, seg_lens, dist,
                 idx, pts, step, node_step_px, written>>
  /\ UNCHANGED <<pipeVars, mapVars, other, health>>

\* the bounding box drawn for every detection
DrawBoxAlways ==
  /\ dr_pc = "loop"
  /\ dr_k <= Len(dr_dets)
  /\ LET det == dr_dets[dr_k]
     IN /\ det.confidence >= draw_conf_thres
        /\ written' = written \cup {DrawTarget(result_img)}
        /\ result_img' =
             [copy |-> TRUE,
              ops  |-> result_img.ops \o
                       << DrawOp("rect", dr_k, <<det.bbox[1], det.bbox[2]>>, det.bbox, << >>),
                          DrawOp("label", dr_k, <<det.bbox[1], det.bbox[2]>>, det.bbox, << >>) >>]
  /\ dr_k' = dr_k + 1
  /\ UNCHANGED <<dr_pc, dr_img, dr_dets, dr_mask, contour, seg_lens, dist,
                 idx, pts, step, node_step_px>>
  /\ UNCHANGED <<pipeVars, mapVars, other, health>>

\* lines 244-253: no mask, the bounding box and a label at (x1, y1);
\* cv2.rectangle writes result_img in place, _draw_label returns a new array
DrawBox ==
  /\ dr_pc = "loop"
  /\ dr_k <= Len(dr_dets)
  /\ LET det == dr_dets[dr_k]
     IN /\ det.confidence >= draw_conf_thres
        /\ det.mask = NoMask
        /\ IF Len(det.bbox) = 4
           THEN /\ written' = written \cup {DrawTarget(result_img)}
                /\ result_img' =
                     [copy |-> TRUE,
                      ops  |-> result_img.ops \o
                               << DrawOp("rect", dr_k, <<det.bbox[1], det.bbox[2]>>, det.bbox, << >>),
                                  DrawOp("label", dr_k, <<det.bbox[1], det.bbox[2]>>, det.bbox, << >>) >>]
           ELSE UNCHANGED <<written, result_img>>
  /\ dr_k' = dr_k + 1
  /\ UNCHANGED <<dr_pc, dr_img, dr_dets, dr_mask, contour, seg_lens, dist,
                 idx, pts, step, node_step_px>>
  /\ UNCHANGED <<pipeVars, mapVars, other, health>>

\* lines 255-309 and 45-64: the mask is reconciled, its largest contour
\* taken and _draw_nodes_and_links entered with the caller's contour array
DrawContour ==
  /\ dr_pc = "loop"
  /\ dr_k <= Len(dr_dets)
  /\ LET det == dr_dets[dr_k]
     IN /\ det.confidence >= draw_conf_thres
        /\ det.mask # NoMask
        /\ det.mask.h * det.mask.w # 0
        /\ det.contour # << >>
        /\ ~AreaBelow10(det.contour)
        /\ dr_mask' = ReconcileMask(det.mask, dr_img.h, dr_img.w)
        /\ contour' = det.contour
        /\ seg_lens' = SegLens(det.contour)
        /\ step' = Max(2, node_step_px)
        /\ dist' = 0
        /\ IF Len(det.contour) < 2 \/ SeqSum(SegLens(det.contour)) <= 0
           THEN idx' = Len(det.contour) - 1 /\ pts' = << >>
           ELSE idx' = 0 /\ pts' = <<det.contour[1]>>
  /\ dr_pc' = "resample"
  /\ UNCHANGED <<dr_img, dr_dets, dr_k, result_img, node_step_px, written>>
  /\ UNCHANGED <<pipeVars, mapVars, other, health>>

\* lines 66-83: one iteration of the resampling loop
ResampleStep ==
  /\ dr_pc = "resample"
  /\ idx < Len(seg_lens)
  /\ LET seg == seg_lens[idx + 1]
     IN IF seg <= 0
        THEN /\ idx' = idx + 1
             /\ UNCHANGED <<contour, seg_lens, dist, pts>>
        ELSE IF dist + seg >= step * LenScale
        THEN LET a  == step * LenScale - dist
                 px == contour[idx + 1][1] * (seg - a) + contour[idx + 2][1] * a
                 py == contour[idx + 1][2] * (seg - a) + contour[idx + 2][2] * a
                 p  == MoveStart(contour[idx + 1], px, py, seg)
             IN /\ pts' = Append(pts, <<RoundHalfEven(px, seg), RoundHalfEven(py, seg)>>)
                /\ contour' = [contour EXCEPT ![idx + 1] = p]
                /\ seg_lens' = [seg_lens EXCEPT ![idx + 1] = SegLen(p, contour[idx + 2])]
                /\ dist' = 0
                /\ UNCHANGED idx
        ELSE /\ dist' = dist + seg
             /\ idx' = idx + 1
             /\ UNCHANGED <<contour, seg_lens, pts>>
  /\ UNCHANGED <<dr_pc, dr_img, dr_dets, dr_k, result_img, dr_mask, step,
                 node_step_px, written>>
  /\ UNCHANGED <<pipeVars, mapVars, other, health>>

\* lines 85-119 and 311-331: the outline through the nodes, then the label
\* at the anchor computed from the contour array
DrawNodesAndLabel ==
  /\ dr_pc = "resample"
  /\ idx >= Len(seg_lens)
  /\ result_img' =
       [copy |-> TRUE,
        ops  |-> result_img.ops \o
                 (IF Len(pts) < 2 THEN << >>
                  ELSE <<DrawOp("nodes", dr_k, pts[1], << >>, pts)>>) \o
                 <<DrawOp("label", dr_k, Anchor(contour), << >>, << >>)>>]
  /\ dr_k' = dr_k + 1
  /\ dr_pc' = "loop"
  /\ UNCHANGED <<dr_img, dr_dets, dr_mask, contour, seg_lens, dist, idx, pts,
                 step, node_step_px, written>>
  /\ UNCHANGED <<pipeVars, mapVars, other, health>>

\* line 333
DrawReturn ==
  /\ dr_pc = "loop"
  /\ dr_k > Len(dr_dets)
  /\ dr_pc' = "finished"
  /\ UNCHANGED <<dr_img, dr_dets, dr_k, result_img, dr_mask, contour, seg_lens,
                 dist, idx, pts, step, node_step_px, written>>
  /\ UNCHANGED <<pipeVars, mapVars, other, health>>

NextDraw ==
  \/ DrawStart
  \/ DrawSkip
  \/ DrawBox
  \/ DrawContour
  \/ ResampleStep
  \/ DrawNodesAndLabel
  \/ DrawReturn

SpecDraw == InitDraw /\ [][NextDraw]_vars

GridCoords == {4, 11, 30}

\* every three-point contour over the grid
TriangleContours ==
  { <<a, b, c>> : a \in GridCoords \X GridCoords,
                  b \in GridCoords \X GridCoords,
                  c \in GridCoords \X GridCoords }

\* the renderer called with at most one detection of the pool, or with one
\* detection whose mask has a contour of TriangleContours
InitLoop ==
  /\ detector = "loaded"
  /\ pc = "idle"
  /\ req = NoReq
  /\ original_img = BadImage
  /\ cropped_img = NoImg
  /\ crop_info = NoInfo
  /\ pred = NoPred
  /\ detections = << >>
  /\ response = NoResponse
  /\ m_in = << >>
  /\ m_info = NoInfo
  /\ m_to = TRUE
  /\ m_once = << >>
  /\ m_twice = << >>
  /\ m_pc = "off"
  /\ other = NoLocals
  /\ health = NoHealth
  /\ written = {}
  /\ dr_pc = "start"
  /\ dr_img = [h |-> 100, w |-> 100, marked |-> FALSE]
  /\ dr_dets \in {q \in DrawDetLists : Len(q) <= 1} \cup
                 { <<DrawDet(<<4, 4, 30, 30>>, 800, 13,
                             [h |-> 100, w |-> 100, ones |-> {<<11, 11>>}], c)>> :
                   c \in TriangleContours }
  /\ dr_k = 0
  /\ result_img = StartCopy
  /\ dr_mask = NoMask
  /\ contour = << >>
  /\ seg_lens = << >>
  /\ dist = 0
  /\ idx = 0
  /\ pts = << >>
  /\ step = 0
  /\ node_step_px \in NodeSteps

\* the statements of _draw_nodes_and_links run one after the other: the
\* loop body is taken as long as its condition holds, then the loop is left
SpecDrawFair ==
  /\ InitLoop
  /\ [][NextDraw]_vars
  /\ WF_vars(ResampleStep)
  /\ WF_vars(DrawNodesAndLabel)

(***************************************************************************)
(* tests/test_gui: the viewer sends one image to /api/analyze and draws    *)
(* the detections of the response on the image it reads again from disk.   *)
(***************************************************************************)
\* contours OpenCV may extract from the smoothed mask of a detection
GuiContours == {<< >>, RectContour, WedgeContour}

\* the detections of the response with the contour of each mask
GuiDetLists(dets) ==
  { q \in [1..Len(dets) -> [bbox : {dets[i].bbox : i \in 1..Len(dets)},
                            confidence : {dets[i].confidence : i \in 1..Len(dets)},
                            class_id : {dets[i].class_id : i \in 1..Len(dets)},
                            class_name : {dets[i].class_name : i \in 1..Len(dets)},
                            mask : {dets[i].mask : i \in 1..Len(dets)},
                            contour : GuiContours]] :
      \A i \in 1..Len(dets) :
        /\ q[i].bbox = dets[i].bbox
        /\ q[i].confidence = dets[i].confidence
        /\ q[i].class_id = dets[i].class_id
        /\ q[i].class_name = dets[i].class_name
        /\ q[i].mask = dets[i].mask
        /\ (dets[i].mask = NoMask => q[i].contour = << >>) }

\* draw_detections, lines 395-443: the image is read again, the crop area
\* is marked on it when the response carries one, and the renderer is
\* called with the detections of the response
GuiDraw ==
  /\ pc = "done"
  /\ response.status = 200
  /\ dr_pc = "off"
  /\ dr_img' = [h |-> original_img.h, w |-> original_img.w,
                marked |-> response.has_crop_info /\ response.crop_info.success]
  /\ dr_dets' \in GuiDetLists(response.detections)
  /\ node_step_px' = 12
  /\ dr_pc' = "start"
  /\ UNCHANGED <<dr_k, result_img, dr_mask, contour, seg_lens, dist, idx, pts,
                 step, written>>
  /\ UNCHANGED <<pipeVars, mapVars, other, health>>

\* the annotated image is shown and the viewer waits for the next image
GuiShow ==
  /\ dr_pc = "finished"
  /\ dr_pc' = "off"
  /\ dr_img' = [h |-> 0, w |-> 0, marked |-> FALSE]
  /\ dr_dets' = << >>
  /\ dr_k' = 0
  /\ result_img' = StartCopy
  /\ dr_mask' = NoMask
  /\ contour' = << >>
  /\ seg_lens' = << >>
  /\ dist' = 0
  /\ idx' = 0
  /\ pts' = << >>
  /\ step' = 0
  /\ node_step_px' = 12
  /\ UNCHANGED written
  /\ UNCHANGED <<pipeVars, mapVars, other, health>>

\* the request of the viewer ends when its picture has been shown
GuiFinish ==
  /\ dr_pc = "off"
  /\ Finish

NextGui ==
  \/ InitDetector
  \/ \E r \in ConcRequests : Receive(r)
  \/ \E img \in ConcImages : Decode(img)
  \/ Crop
  \/ Fallback
  \/ \E p \in ConcOutputs : Detect(p)
  \/ Transform
  \/ Respond
  \/ GuiFinish
  \/ GuiDraw
  \/ DrawStart
  \/ DrawSkip
  \/ DrawBox
  \/ DrawContour
  \/ ResampleStep
  \/ DrawNodesAndLabel
  \/ DrawReturn
  \/ GuiShow

SpecGui == Init /\ [][NextGui]_vars

(***************************************************************************)
(* Properties                                                              *)
(***************************************************************************)
\* the circle found in the current original image
CircleCx == IntOfTenths(original_img.x10)

CircleR == IntOfTenths(original_img.r10)

CircleAccepted == original_img.contours /\ CircleR >= MIN_RADIUS_FILTER

\* crop_image_by_circle has returned and its result is still held
AfterCrop == pc \in {"fallback", "detect", "transform", "respond"}

\* C1: for an accepted circle with integer centre cx in a W x H image,
\* crop_coords = (clamp(cx - 540, 0, W), 0, clamp(cx + 540, 0, W), H); the
\* circle (600, 540) of radius 300 in a 1600 x 1080 image gives
\* (60, 0, 1140, 1080); the y-range is the full height.
C1_CropCoords ==
  (AfterCrop /\ CircleAccepted) =>
     /\ crop_info.crop_coords =
          << Clamp(CircleCx - 540, 0, original_img.w), 0,
             Clamp(CircleCx + 540, 0, original_img.w), original_img.h >>
     /\ (original_img = Image(1080, 1600, TRUE, 6000, 5400, 3000)
           => crop_info.crop_coords = <<60, 0, 1140, 1080>>)

C1_Witness ==
  /\ pc = "fallback"
  /\ original_img = Image(1080, 1600, TRUE, 6000, 5400, 3000)
  /\ crop_info.crop_coords = <<60, 0, 1140, 1080>>

\* C2: crop_image_by_circle reports success = false exactly when no contour
\* is found or the truncated radius is < 200; then it returns no cropped
\* image and crop_coords = None as an ordinary value; a radius of exactly
\* 200 is accepted.
C2_RejectExactly ==
  pc = "fallback" =>
     /\ "success" \in crop_info.keys
     /\ ~crop_info.success <=> (~original_img.contours \/ CircleR < 200)
     /\ ~crop_info.success =>
           (cropped_img = NoImg /\ crop_info.crop_coords = NoneT
              /\ crop_info.cropped_shape = NoneT)
     /\ crop_info.success => (cropped_img # NoImg /\ crop_info.crop_coords # NoneT)
     /\ (original_img.contours /\ CircleR = 200) => crop_info.success

C2_Witness ==
  /\ pc = "fallback"
  /\ original_img.contours
  /\ original_img.r10 = 1999
  /\ ~crop_info.success
  /\ crop_info.radius = 199
  /\ cropped_img = NoImg

\* C3: when the ROI Locator reports success = false, the detector runs on
\* the full original image, crop_coords is None, no coordinate translation
\* is applied for either coordinate_type, and the returned boxes are those
\* computed on the full image (Original space).
C3_RoiFailureFullImage ==
  (pc \in {"detect", "transform", "respond", "done"} /\ original_img # BadImage
     /\ ~CircleAccepted) =>
     /\ cropped_img = [h |-> original_img.h, w |-> original_img.w, x0 |-> 0, y0 |-> 0]
     /\ crop_info.crop_coords = NoneT
     /\ ~crop_info.success
     /\ pc \in {"respond", "done"} =>
           /\ detections = detect(FullImage(original_img), req.conf_thres,
                                  req.iou_thres, pred)
           /\ (pc = "done" /\ pred # ModelRaises) =>
                 (response.status = 200 /\ response.detections = detections)

C3_Witness ==
  /\ pc = "done"
  /\ response.status = 200
  /\ original_img.contours
  /\ original_img.r10 = 500
  /\ original_img.w = 1600
  /\ req.coordinate_type = "original"
  /\ Len(response.detections) = 2
  /\ response.crop_info.crop_coords = NoneT

\* detect has returned and its network output is still held
AfterDetect == pc \in {"transform", "respond"}

\* candidate c is reported in the current detection list
Reported(c) ==
  \E i \in 1..Len(detections) :
     detections[i].confidence = c.conf /\ detections[i].class_id = c.cls

CandSet == {pred.cands[i] : i \in 1..Len(pred.cands)}

Overlap(a, b) == IoUAtLeast(a.box, b.box, req.iou_thres)

\* x is suppressed by a reported candidate other than a and b
SuppressedByThird(x, a, b) ==
  \E c \in CandSet \ {a, b} : Reported(c) /\ c.conf >= x.conf /\ c # x /\ Overlap(c, x)

ConfThresholds == {0, 250, 600, 700, 701, 1000}

\* what detect returns for the held image and network output at threshold t
DetectAt(t) == detect(cropped_img, t, req.iou_thres, pred)

\* C5: the result for conf_thres = t is exactly the sub-list, with
\* confidence >= t, of the result obtained without a caller threshold (the
\* NMS survivors at the fixed low threshold); a candidate with confidence
\* exactly t is kept; raising conf_thres only removes detections.
C5_ConfFilterAfterNMS ==
  pc = "transform" =>
     /\ detections = SelectSeq(DetectAt(0), LAMBDA d : d.confidence >= req.conf_thres)
     /\ Len(DetectAt(0)) = Len(DetNMS(pred.cands, req.iou_thres))
     /\ \A t \in ConfThresholds :
           DetectAt(t) = SelectSeq(DetectAt(0), LAMBDA d : d.confidence >= t)

C5_Witness ==
  /\ pc = "transform"
  /\ req.conf_thres = 250
  /\ pred.cands = SubPool({1, 4}, 1)
  /\ Len(detections) = 2
  /\ detections[2].confidence = 250

Key(d) == <<d.confidence, d.class_id>>

CandKey(c) == <<c.conf, c.cls>>

\* C6: the detection list of detect, of transform_coordinates and of the
\* response preserves the NMS output order: it is the NMS output with some
\* rows left out, nothing duplicated, nothing reordered.
C6_OrderPreserved ==
  (AfterDetect \/ (pc = "done" /\ response.status = 200)) =>
     LET nms == DetNMS(pred.cands, req.iou_thres)
         out == IF pc = "done" THEN response.detections ELSE detections
     IN /\ \E f \in [1..Len(out) -> 1..Len(nms)] :
              /\ \A k \in 1..Len(out) : Key(out[k]) = CandKey(nms[f[k]])
              /\ \A k, l \in 1..Len(out) : k < l => f[k] < f[l]
        /\ \A k, l \in 1..Len(out) : k # l => Key(out[k]) # Key(out[l])
        /\ \A k \in 1..Len(nms) :
              nms[k].conf >= req.conf_thres => \E l \in 1..Len(out) : Key(out[l]) = CandKey(nms[k])

C6_Witness ==
  /\ pc = "done"
  /\ response.status = 200
  /\ req.coordinate_type = "original"
  /\ crop_info.success
  /\ pred.cands = SubPool({1, 3, 5}, 1)
  /\ Len(response.detections) = 3
  /\ response.detections[2].confidence = 700
  /\ response.detections[3].confidence = 600

\* C7: class_name is the c-th entry of the 18-entry class table when c
\* indexes it and "class_<c>" for an id outside it, which is never the name
\* of a table entry.
C7_ClassNames ==
  /\ Len(CLASS_ORDER) = 18
  /\ \A i \in 1..Len(detections) :
        LET d == detections[i]
        IN /\ d.class_id = 0  => d.class_name = "eardrum_perforation"
           /\ d.class_id = 4  => d.class_name = "cerumen"
           /\ d.class_id = 17 => d.class_name = "normal"
           /\ d.class_id = 18 => d.class_name = "class_18"
           /\ d.class_id \in 0..17 => d.class_name = CLASS_ORDER[d.class_id + 1]
           /\ d.class_id >= 18 =>
                 /\ d.class_name = "class_" \o ToString(d.class_id)
                 /\ \A k \in 1..Len(CLASS_ORDER) : d.class_name # CLASS_ORDER[k]

C7_Witness ==
  /\ pc = "transform"
  /\ \E i \in 1..Len(detections) :
        detections[i].class_id = 18 /\ detections[i].class_name = "class_18"
  /\ \E i \in 1..Len(detections) :
        detections[i].class_id = 4 /\ detections[i].class_name = "cerumen"

\* the candidate behind a reported detection
CandOf(d) == CHOOSE c \in CandSet : CandKey(c) = Key(d)

\* C8: a mask decode failure for one candidate drops that candidate's mask
\* only: the list is the one obtained without the failure, except that the
\* failing candidate has no mask.
C8_MaskFailureLocal ==
  pc = "transform" =>
     LET clean == detect(cropped_img, req.conf_thres, req.iou_thres,
                         [pred EXCEPT !.fail = {}])
     IN /\ Len(detections) = Len(clean)
        /\ \A i \in 1..Len(detections) :
              IF CandOf(clean[i]).id \in pred.fail
              THEN /\ detections[i].mask = NoMask
                   /\ detections[i] = [clean[i] EXCEPT !.mask = NoMask]
              ELSE detections[i] = clean[i]

C8_Witness ==
  /\ pc = "transform"
  /\ pred.nm > 0
  /\ pred.fail = {1}
  /\ Len(detections) = 2
  /\ detections[1].confidence = 900
  /\ detections[1].mask = NoMask
  /\ detections[1].class_name = "cerumen"
  /\ detections[2].mask # NoMask

\* the Cropped-space detections detect returned for the held request
CroppedDets == detect(cropped_img, req.conf_thres, req.iou_thres, pred)

ShiftBox(b, dx, dy) == <<b[1] + dx, b[2] + dy, b[3] + dx, b[4] + dy>>

\* detection d, whose Cropped-space form is c, has bbox and mask both in
\* Cropped space
BothCropped(d, c) ==
  /\ d.bbox = c.bbox
  /\ d.mask.h = cropped_img.h /\ d.mask.w = cropped_img.w
  /\ d.mask.ones = c.mask.ones

\* detection d, whose Cropped-space form is c, has bbox and mask both in
\* Original space
BothOriginal(d, c) ==
  /\ d.bbox = ShiftBox(c.bbox, cropped_img.x0, cropped_img.y0)
  /\ d.mask.h = original_img.h /\ d.mask.w = original_img.w
  /\ d.mask.ones = {<<q[1] + cropped_img.y0, q[2] + cropped_img.x0>> : q \in c.mask.ones}

OriginalToCropped(p, cc) == <<p[1] - cc[1], p[2] - cc[2]>>

\* the Cropped -> Original translation of transform_coordinates on a point
CroppedToOriginal(q, ci) ==
  LET d == TransformDet([bbox |-> <<q[1], q[2], q[1], q[2]>>, confidence |-> 0,
                         class_id |-> 0, class_name |-> "", mask |-> NoMask], ci, TRUE)
  IN <<d.bbox[1], d.bbox[2]>>

\* Original-space sample points of the held image
SamplePoints ==
  {<<x, y>> : x \in {0, 1, 59, 60, 710, original_img.w - 1},
              y \in {0, 1, 540, original_img.h - 1}}

Abs(v) == IF v >= 0 THEN v ELSE -v

BackMapped ==
  /\ pc \in {"respond", "done"}
  /\ response.status \in {0, 200}
  /\ req.coordinate_type = "original"
  /\ crop_info.success

\* C11: for every valid crop rectangle and every point p, Original ->
\* Cropped (-x1, -y1) followed by the Cropped -> Original translation of
\* transform_coordinates returns p within 0.5 px; a back-mapped bbox minus
\* the crop offset is the Cropped-space bbox.
C11_RoundTrip ==
  /\ (AfterCrop /\ crop_info.success) =>
        \A p \in SamplePoints :
           LET back == CroppedToOriginal(OriginalToCropped(p, crop_info.crop_coords),
                                         crop_info)
           IN 2 * Abs(back[1] - p[1]) <= 1 /\ 2 * Abs(back[2] - p[2]) <= 1
  /\ BackMapped =>
        \A i \in 1..Len(detections) :
           /\ OriginalToCropped(<<detections[i].bbox[1], detections[i].bbox[2]>>,
                                crop_info.crop_coords)
                = <<CroppedDets[i].bbox[1], CroppedDets[i].bbox[2]>>
           /\ OriginalToCropped(<<detections[i].bbox[3], detections[i].bbox[4]>>,
                                crop_info.crop_coords)
                = <<CroppedDets[i].bbox[3], CroppedDets[i].bbox[4]>>

C11_Witness ==
  /\ BackMapped
  /\ pc = "respond"
  /\ crop_info.crop_coords = <<710, 0, 1600, 1080>>
  /\ Len(detections) >= 1
  /\ detections[1].bbox[1] = CroppedDets[1].bbox[1] + 710
  /\ detections[1].bbox[3] = CroppedDets[1].bbox[3] + 710

\* C12: the bbox corners of every detection, after the rescale to Cropped
\* space in detect and after the translation to Original space, satisfy
\* x1 <= x2 and y1 <= y2.
C12_BoxOrdered ==
  /\ \A i \in 1..Len(detections) :
        /\ detections[i].bbox[1] <= detections[i].bbox[3]
        /\ detections[i].bbox[2] <= detections[i].bbox[4]
  /\ \A i \in 1..Len(response.detections) :
        /\ response.detections[i].bbox[1] <= response.detections[i].bbox[3]
        /\ response.detections[i].bbox[2] <= response.detections[i].bbox[4]

C12_Witness ==
  /\ BackMapped
  /\ pc = "done"
  /\ crop_info.crop_coords = <<710, 0, 1600, 1080>>
  /\ Len(response.detections) = 2
  /\ response.detections[1].bbox[1] >= 710
  /\ response.detections[1].bbox[1] < response.detections[1].bbox[3]
  /\ response.detections[2].class_id = 12

\* C13: a mask mapped to Original space is a grid of exactly the Original
\* extents that is zero outside crop_rect and, inside crop_rect, equals
\* the Cropped-space mask at (y - crop_y1, x - crop_x1); nothing is written
\* outside the grid.
C13_MaskPlacement ==
  BackMapped =>
     \A i \in 1..Len(detections) :
        LET out == detections[i].mask
            src == CroppedDets[i].mask
            cc  == crop_info.crop_coords
        IN src # NoMask =>
              /\ out.h = original_img.h /\ out.w = original_img.w
              /\ \A q \in out.ones :
                    /\ 0 <= q[1] /\ q[1] < out.h /\ 0 <= q[2] /\ q[2] < out.w
                    /\ cc[1] <= q[2] /\ q[2] < cc[3] /\ cc[2] <= q[1] /\ q[1] < cc[4]
                    /\ <<q[1] - cc[2], q[2] - cc[1]>> \in src.ones
              /\ \A r \in src.ones : <<r[1] + cc[2], r[2] + cc[1]>> \in out.ones

C13_Witness ==
  /\ BackMapped
  /\ pc = "respond"
  /\ crop_info.crop_coords = <<710, 0, 1600, 1080>>
  /\ Len(detections) >= 1
  /\ detections[1].mask # NoMask
  /\ detections[1].mask.ones # {}
  /\ detections[1].mask.w = 1600
  /\ CroppedDets[1].mask.w = 890

\* the pixels of a dh x dw nearest-neighbour resize that must be 1, read
\* off the definition dst(y, x) = src(y * sh \div dh, x * sw \div dw)
ResizedOnes(src, dh, dw) ==
  UNION { {y \in 0..(dh - 1) : (y * src.h) \div dh = r[1]}
          \X {x \in 0..(dw - 1) : (x * src.w) \div dw = r[2]} : r \in src.ones }

\* C14: a mask whose size differs from the declared Cropped extents is
\* never copied as it is: it is resized with nearest-neighbour sampling to
\* exactly (crop_h, crop_w) before it is placed, and in every placement the
\* written array and the target rectangle have the same shape (no call
\* raises).
C14_MismatchResized ==
  /\ m_pc \notin {"raised", "rejected"}
  /\ (m_pc = "twice" /\ m_info.success) =>
        \A i \in 1..Len(m_twice) :
           LET src == m_once[i].mask
               out == m_twice[i].mask
               cc  == m_info.crop_coords
               ch  == m_info.cropped_shape[1]
               cw  == m_info.cropped_shape[2]
           IN (src # NoMask /\ (src.h # ch \/ src.w # cw)) =>
                 /\ out.h = m_info.original_shape[1]
                 /\ out.w = m_info.original_shape[2]
                 /\ cc[2] + ch <= out.h /\ cc[1] + cw <= out.w
                 /\ out.ones = {<<q[1] + cc[2], q[2] + cc[1]>> : q \in ResizedOnes(src, ch, cw)}

C14_Witness ==
  /\ m_pc = "twice"
  /\ m_info.crop_coords = <<60, 0, 1140, 1080>>
  /\ Len(m_twice) >= 1
  /\ m_once[1].mask.w = 1600
  /\ m_info.cropped_shape = <<1080, 1080>>
  /\ m_once[1].mask.ones # {}
  /\ m_twice[1].mask.ones # {}
  /\ m_twice[1].mask.ones # m_once[1].mask.ones

\* C20: transform_coordinates is the identity when crop_info reports
\* success = false: for every detection list and every to_original it
\* returns the detections unchanged and does not read crop_coords (a None
\* crop_coords does not make it raise).
C20_IdentityOnFailure ==
  (m_pc \notin {"off", "start"} /\ ~("success" \in m_info.keys /\ m_info.success)) =>
     /\ m_pc \in {"once", "twice"}
     /\ m_once = m_in
     /\ (m_pc = "twice") => (m_twice = m_in)

C20_Witness ==
  /\ m_pc = "once"
  /\ "success" \in m_info.keys
  /\ ~m_info.success
  /\ m_info.crop_coords = NoneT
  /\ m_to
  /\ Len(m_in) = 2
  /\ m_in[1].mask # NoMask
  /\ m_once = m_in

\* C15: a per-request error (undecodable image, an exception during
\* cropping, detection or back-mapping) aborts the request: no step after
\* the failing one runs, and the response carries an error and no
\* detections; no response has both an error and a detection list.
C15_ErrorAborts ==
  /\ (response.error # "") =>
        /\ pc = "done"
        /\ response.status \in {400, 500}
        /\ response.detections = << >>
        /\ ~response.has_crop_info
  /\ (response.status = 200) => (response.error = "")
  /\ (pc \in {"crop", "fallback", "detect", "transform", "respond"}) =>
        /\ response = NoResponse
        /\ original_img # BadImage
        /\ pred # ModelRaises
  /\ (pc = "done" /\ response.error = "ValueError") =>
        /\ original_img = BadImage
        /\ cropped_img = NoImg
        /\ crop_info = NoInfo
        /\ pred = NoPred
  /\ (pred = ModelRaises) =>
        /\ pc = "done"
        /\ response.status = 500
        /\ response.error # ""
        /\ detections = << >>

C15_Witness ==
  /\ pc = "done"
  /\ pred = ModelRaises
  /\ response.error = "RuntimeError"
  /\ crop_info.success
  /\ req.coordinate_type = "original"
  /\ req.include_crop_coords

\* the returned detections are the Cropped-space detections of the request
InCroppedSpace ==
  response.detections = CroppedDets

\* the returned detections are the Cropped-space detections with the
\* back-mapping applied exactly once (boxes moved by the crop offset, masks
\* placed on the original grid)
InOriginalSpace ==
  /\ Len(response.detections) = Len(CroppedDets)
  /\ \A i \in 1..Len(CroppedDets) :
        LET d == response.detections[i]
            c == CroppedDets[i]
        IN /\ d.bbox = ShiftBox(c.bbox, cropped_img.x0, cropped_img.y0)
           /\ d.confidence = c.confidence /\ d.class_id = c.class_id
           /\ (c.mask = NoMask) => (d.mask = NoMask)
           /\ (c.mask # NoMask) => BothOriginal(d, c)

\* C16: the back-mapping is applied exactly once when coordinate_type is
\* "original" and the ROI succeeded, not at all when it is "cropped", and
\* the coordinate_type echoed in the response names the space the returned
\* detections are in, for every supplied coordinate_type value.
C16_EchoNamesSpace ==
  (pc = "done" /\ response.status = 200) =>
     /\ (req.coordinate_type = "original" /\ crop_info.success) => InOriginalSpace
     /\ (req.coordinate_type = "cropped") => InCroppedSpace
     /\ \/ response.coordinate_type = "original" /\ InOriginalSpace
        \/ response.coordinate_type = "cropped" /\ InCroppedSpace

\* C17: a successful response contains the ROI Result if and only if
\* include_crop_coords was requested, and whenever present it carries
\* success, center, radius, crop_rect and the original and cropped extents,
\* on the ROI-success path and on the ROI-failure path.
C17_RoiResultComplete ==
  (pc = "done" /\ response.status = 200) =>
     /\ response.has_crop_info <=> req.include_crop_coords
     /\ response.has_crop_info => (CropInfoKeys \subseteq response.crop_info.keys)

\* C18: for an all-black or an all-white input image of any size the ROI
\* Locator returns success = false and does not raise.
C18_UniformImageRejected ==
  (pc = "fallback" /\ original_img \in UniformImages) =>
     /\ "success" \in crop_info.keys
     /\ ~crop_info.success
     /\ cropped_img = NoImg

\* the response of one analyze_image call run alone on request r, with
\* img the decoded image (BadImage: undecodable) and p the network's
\* output
AloneResponse(r, img, p) ==
  IF detector = "None" THEN ErrorResponse(500, "detector not initialized")
  ELSE IF ~r.has_image THEN ErrorResponse(400, "missing image")
  ELSE IF img = BadImage THEN ErrorResponse(500, "ValueError")
  ELSE IF p = ModelRaises THEN ErrorResponse(500, "RuntimeError")
  ELSE LET c == CropOutcome(img)
           d == detect(c.img, r.conf_thres, r.iou_thres, p)
           t == IF r.coordinate_type = "original" /\ c.info.success
                THEN transform_coordinates(d, c.info, TRUE)
                ELSE [raised |-> FALSE, value |-> d]
       IN IF t.raised THEN ErrorResponse(500, "exception")
          ELSE [status |-> 200, error |-> "", detections |-> t.value,
                coordinate_type |-> r.coordinate_type,
                has_crop_info |-> r.include_crop_coords,
                crop_info |-> IF r.include_crop_coords THEN c.info ELSE NoInfo]

\* the locals of a call in flight are those the call computes alone from
\* its own request, image and network output
PrivateLocals(l) ==
  /\ (l.pc \in {"detect", "transform", "respond"}) =>
        /\ l.cropped_img = CropOutcome(l.original_img).img
        /\ l.crop_info = CropOutcome(l.original_img).info
  /\ (l.pc = "transform") =>
        l.detections = detect(l.cropped_img, l.req.conf_thres, l.req.iou_thres, l.pred)
  /\ (l.pc = "done") => (l.response = AloneResponse(l.req, l.original_img, l.pred))

FirstLocals == [pc |-> pc, req |-> req, original_img |-> original_img,
                cropped_img |-> cropped_img, crop_info |-> crop_info,
                pred |-> pred, detections |-> detections, response |-> response]

\* C19: requests share no mutable state: under every interleaving of two
\* concurrent analyze_image calls each call's image buffers, ROI result and
\* detection list are its own and its response equals the response it gets
\* when run alone; the detector is written only by init_detector at startup
\* (None to loaded, no request in flight) and never by a request.
C19_NoSharedState ==
  /\ [](PrivateLocals(FirstLocals) /\ PrivateLocals(other))
  /\ [][detector' # detector =>
          /\ detector = "None" /\ detector' = "loaded"
          /\ pc = "idle" /\ other.pc = "idle"
          /\ pc' = pc /\ other' = other]_vars

C19_Witness ==
  /\ pc = "done" /\ other.pc = "transform"
  /\ detector = "loaded"
  /\ response.status = 200
  /\ Len(response.detections) = 2
  /\ req.coordinate_type = "original"
  /\ crop_info.success
  /\ other.req.coordinate_type = "cropped"
  /\ ~other.crop_info.success
  /\ Len(other.detections) = 2
  /\ other.original_img # original_img
  /\ other.pred # pred

\* C21: in detect each candidate's mask is decoded with that candidate's
\* own box as it was in Inference space (the snapshot taken before the
\* rescale), never with the rescaled box, while the reported bbox is the
\* rescaled one.
C21_MaskUsesInferenceBox ==
  pc = "transform" =>
     \A i \in 1..Len(detections) :
        LET c  == CandOf(detections[i])
            lb == letterbox(cropped_img.h, cropped_img.w)
        IN /\ detections[i].bbox =
                 RoundBox(scale_coords(lb, c.box, cropped_img.h, cropped_img.w))
           /\ detections[i].mask # NoMask =>
                 detections[i].mask =
                    scale_masks(lb, process_mask(c.proto, c.box, img_size, img_size),
                                cropped_img.h, cropped_img.w)

C21_Witness ==
  /\ pc = "transform"
  /\ cropped_img.w = 1080
  /\ pred.cands = SubPool({1, 3, 5}, 1)
  /\ req.conf_thres = 700
  /\ Len(detections) = 2
  /\ detections[1].bbox = <<169, 338, 506, 675>>
  /\ detections[1].mask.ones # {}
  /\ detections[2].confidence = 700
  /\ detections[2].mask.ones # {}

\* C27: whenever crop_image_by_circle succeeds (the circle centre x lies in
\* [0, W]) the crop rectangle satisfies 0 <= x1 < x2 <= W, x2 - x1 <= 1080,
\* y1 = 0 and y2 = H, the cropped image is non-empty and cropped_shape is
\* (H, x2 - x1).
C27_CropRectInvariant ==
  (pc = "fallback" /\ crop_info.success) =>
     LET cc == crop_info.crop_coords
         W  == original_img.w
         H  == original_img.h
     IN /\ 0 <= CircleCx /\ CircleCx <= W
        /\ 0 <= cc[1] /\ cc[1] < cc[3] /\ cc[3] <= W
        /\ cc[3] - cc[1] <= TARGET_SIZE
        /\ cc[2] = 0 /\ cc[4] = H
        /\ cropped_img # NoImg
        /\ cropped_img.h > 0 /\ cropped_img.w > 0
        /\ crop_info.cropped_shape = <<H, cc[3] - cc[1]>>
        /\ <<cropped_img.h, cropped_img.w>> = crop_info.cropped_shape

C27_Witness ==
  /\ pc = "fallback"
  /\ crop_info.success
  /\ original_img.x10 = 15990
  /\ crop_info.crop_coords = <<1059, 0, 1600, 1080>>
  /\ crop_info.cropped_shape = <<1080, 541>>

\* C28: transform_coordinates does not modify its inputs: the input
\* detections (bbox, mask) and crop_info are the same after the call, the
\* output has as many detections as the input, and confidence, class_id and
\* class_name of each output detection are those of the input detection;
\* only bbox and mask may differ.
C28_InputsUntouched ==
  /\ []((m_pc \in {"once", "twice"}) =>
          /\ Len(m_once) = Len(m_in)
          /\ \A i \in 1..Len(m_in) :
                /\ m_once[i].confidence = m_in[i].confidence
                /\ m_once[i].class_id = m_in[i].class_id
                /\ m_once[i].class_name = m_in[i].class_name
                /\ m_once[i] = [m_in[i] EXCEPT !.bbox = m_once[i].bbox,
                                               !.mask = m_once[i].mask])
  /\ [][m_in' = m_in /\ m_info' = m_info]_vars

C28_Witness ==
  /\ m_pc = "once"
  /\ m_to
  /\ m_info.success
  /\ m_info.crop_coords = <<60, 0, 1140, 1080>>
  /\ Len(m_in) = 2
  /\ m_in[1].bbox = <<169, 338, 506, 675>>
  /\ m_once[1].bbox = <<229, 338, 566, 675>>
  /\ m_in[1].mask.w = 1080
  /\ m_once[1].mask.w = 1600

\* analyze_image call l has not decoded, cropped or detected anything
NothingAnalysed(l) ==
  /\ l.original_img = BadImage
  /\ l.cropped_img = NoImg
  /\ l.crop_info = NoInfo
  /\ l.pred = NoPred
  /\ l.detections = << >>

\* C30: no request is analysed before the detector is initialised: while
\* the detector is unset every analyze_image call returns an error response
\* without decoding, cropping or detecting and health_check reports
\* detector_loaded = false; once init_detector has completed,
\* detector_loaded is true in every later state.
C30_NoAnalysisBeforeInit ==
  /\ []((detector = "None") =>
          /\ \A l \in {FirstLocals, other} :
                /\ l.pc \in {"idle", "done"}
                /\ NothingAnalysed(l)
                /\ (l.pc = "done") =>
                      (l.response.status \in {400, 500} /\ l.response.error # "")
          /\ ~health.detector_loaded)
  /\ [][(detector = "None" /\ health' # health) => ~health'.detector_loaded]_vars
  /\ [][(detector = "loaded") =>
          /\ detector' = "loaded"
          /\ (health' # health) => health'.detector_loaded]_vars

C30_Witness ==
  /\ detector = "None"
  /\ pc = "done"
  /\ req.has_image
  /\ response.status = 500
  /\ response.error = "detector not initialized"
  /\ health.called
  /\ ~health.detector_loaded
  /\ other.pc = "done"

(***************************************************************************)
(* Properties of the annotation renderer                                   *)
(***************************************************************************)
\* the detection the renderer is working on has just had its mask reconciled
Reconciled ==
  /\ dr_pc = "resample"
  /\ dr_mask = ReconcileMask(dr_dets[dr_k].mask, dr_img.h, dr_img.w)

\* C29: after the mask-size reconciliation the mask has exactly the
\* image's height and width, whatever the two sizes were.
C29_MaskHasImageShape ==
  Reconciled => (dr_mask.h = dr_img.h /\ dr_mask.w = dr_img.w)

\* the primitives drawn for detection k
OpsOf(k) == SelectSeq(result_img.ops, LAMBDA o : o.det = k)

\* detection k has been passed by the renderer's loop
Passed(k) == dr_pc \in {"loop", "finished"} /\ k < dr_k /\ k <= Len(dr_dets)

BoxFallback(k) ==
  OpsOf(k) = << DrawOp("rect", k, <<dr_dets[k].bbox[1], dr_dets[k].bbox[2]>>,
                       dr_dets[k].bbox, << >>),
                DrawOp("label", k, <<dr_dets[k].bbox[1], dr_dets[k].bbox[2]>>,
                       dr_dets[k].bbox, << >>) >>

\* no rectangle is drawn for detection k
NoBoxDrawn(k) == \A i \in 1..Len(OpsOf(k)) : OpsOf(k)[i].op # "rect"

\* the renderer is extracting or resampling a contour of detection k
InContourPath(k) == dr_pc = "resample" /\ dr_k = k

\* C24 as stated: every detection without a mask gets the bounding box and
\* a label at (x1, y1) and never the contour path; a detection with a mask
\* never gets the bounding box.
C24_Original ==
  \A k \in 1..Len(dr_dets) :
    /\ (dr_dets[k].mask = NoMask /\ Passed(k)) => BoxFallback(k)
    /\ (dr_dets[k].mask = NoMask) => ~InContourPath(k)
    /\ (dr_dets[k].mask # NoMask /\ Passed(k)) => NoBoxDrawn(k)

\* C24 (amended): a detection without a mask whose confidence reaches
\* draw_conf_thres and whose box has four entries gets the bounding box and
\* a label at (x1, y1); no detection without a mask enters the contour
\* path; a detection with a mask never gets the bounding box.
C24_BoxFallback ==
  \A k \in 1..Len(dr_dets) :
    /\ (/\ dr_dets[k].mask = NoMask
        /\ dr_dets[k].confidence >= draw_conf_thres
        /\ Len(dr_dets[k].bbox) = 4
        /\ Passed(k)) => BoxFallback(k)
    /\ (dr_dets[k].mask = NoMask) => ~InContourPath(k)
    /\ (dr_dets[k].mask # NoMask /\ Passed(k)) => NoBoxDrawn(k)

C24_Witness ==
  /\ dr_pc = "finished"
  /\ Len(dr_dets) = 2
  /\ dr_dets[1].mask = NoMask /\ dr_dets[1].confidence >= draw_conf_thres
  /\ BoxFallback(1)
  /\ dr_dets[2].mask # NoMask
  /\ Len(OpsOf(2)) = 2 /\ OpsOf(2)[1].op = "nodes"

\* the resampling loop of the current detection has run to its end
LoopDone == dr_pc = "resample" /\ idx >= Len(seg_lens)

\* total length of the polyline as extracted, in 1/LenScale px
ExtractedLength == SeqSum(SegLens(dr_dets[dr_k].contour))

\* C23: the nodes are one arc-length step apart along the polyline, so
\* the loop leaves floor(total_length / step) + 1 of them.
C23_EvenlySpaced ==
  LoopDone => Len(pts) = ExtractedLength \div (step * LenScale) + 1

\* C22: the label of a mask-bearing detection is at the centroid (or
\* bounding-box corner) of the contour as extracted from the mask; the
\* resampling before it has no effect on the anchor.
C22_AnchorFromExtracted ==
  \A i \in 1..Len(result_img.ops) :
    LET o == result_img.ops[i]
    IN (o.op = "label" /\ dr_dets[o.det].mask # NoMask)
         => o.xy = Anchor(dr_dets[o.det].contour)

\* the loop of _draw_nodes_and_links is left
LoopTerminates == (dr_pc = "resample") ~> (dr_pc # "resample")

\* the iteration moves on to the next segment
Advances == idx' = idx + 1

\* C26 as stated: the loop terminates, and every iteration either advances
\* to the next segment or strictly shortens the current one.
C26_Original ==
  /\ LoopTerminates
  /\ [][ResampleStep => (Advances \/ seg_lens'[idx + 1] < seg_lens[idx + 1])]_vars

\* C26 (amended): the loop terminates; every iteration either advances to
\* the next segment, or emits a node, resets the carried distance to zero
\* and does not lengthen the current segment, and it strictly shortens the
\* segment whenever it started with a carried distance of zero.
C26_LoopTerminates ==
  /\ LoopTerminates
  /\ [][ResampleStep =>
          \/ Advances
          \/ /\ idx' = idx
             /\ Len(pts') = Len(pts) + 1
             /\ dist' = 0
             /\ seg_lens'[idx + 1] <= seg_lens[idx + 1]
             /\ (dist = 0 => seg_lens'[idx + 1] < seg_lens[idx + 1])]_vars

\* a node was emitted from a segment that the write-back left as long as it
\* was, and the loop has ended since
C26_Witness ==
  /\ LoopDone
  /\ dr_dets[dr_k].contour = SlantContour
  /\ step = 12
  /\ contour[2] = <<64, 16>>
  /\ Len(pts) = 6

\* the buffers a stage may write in place: its own working copies
WorkingCopies == {"binary_display", "im_tensor", "result_img"}

====
